---- MODULE Spec2Model ----
(***************************************************************************)
(* Model of the purchase-order agent (src/ai_agents/azure_ai_agent.py) and *)
(* of the business data store (src/mcp_server/data_store.py).              *)
(*                                                                         *)
(* Optional[...] values of the Python code are modelled as sets: None is   *)
(* the empty set and a present value v is the singleton {v}.               *)
(***************************************************************************)
EXTENDS Integers, Sequences, FiniteSets, TLC

(***************************************************************************)
(* Bounds of the model.                                                    *)
(***************************************************************************)
MaxRuns == 2
MaxToolCalls == 1

Runs == 1..MaxRuns

None == {}
Some(v) == {v}

(***************************************************************************)
(* The hosting collaborator, as seen through the project client.           *)
(***************************************************************************)
\* Terminal statuses create_and_process can hand back.
RunStatuses == {"completed", "failed", "expired"}

\* Tool invocations the execution context can make while it runs.
ToolPool ==
  { [tool |-> "get_user", args |-> "alice-001", result |-> "Alice Johnson"],
    [tool |-> "search_products", args |-> "computer", result |-> "Business Laptop"] }

RECURSIVE SeqsUpTo(_, _)
SeqsUpTo(S, n) ==
  IF n = 0 THEN { <<>> }
  ELSE LET shorter == SeqsUpTo(S, n - 1)
       IN  shorter \cup { Append(q, x) : q \in { t \in shorter : Len(t) = n - 1 }, x \in S }

ToolCallSeqs == SeqsUpTo(ToolPool, MaxToolCalls)

TextItem(v) == [text |-> Some(v)]
ImageItem == [text |-> None]
Msg(role, content) == [role |-> role, content |-> content]

\* Message lists messages.list can hand back for a thread.
MessagePool ==
  { << Msg("user", <<TextItem("request")>>) >>,
    << Msg("assistant", <<>>), Msg("assistant", <<ImageItem, TextItem("Buy B")>>),
       Msg("user", <<TextItem("request")>>) >>,
    << Msg("assistant", <<ImageItem>>), Msg("assistant", <<TextItem("Buy C")>>) >> }

LastErrors == {"rate_limit"}

(***************************************************************************)
(* State.                                                                  *)
(***************************************************************************)
VARIABLES
  project_client,   \* self.project_client: None or the client
  agent_id,         \* self.agent_id
  execution_steps,  \* self.execution_steps: reference to a list object
  step_counter,     \* self.step_counter
  lists,            \* the list objects: lists[ref] is the content of list ref
  pc,               \* pc[r]: position of run r inside process_purchase_request;
                    \* "done" once it has returned, "raised" once an exception
                    \* has left it, "gone" once its frame is dropped
  agent,            \* agent[r]: local variable agent (None or the agent's id)
  exc,              \* exc[r]: the exception propagating in run r, None if none
  recommendation,   \* recommendation[r]: local variable recommendation
  result,           \* result[r]: the AgentResult returned by run r, None before
  liveAgents,       \* agents that exist at the hosting collaborator
  createdBy,        \* createdBy[r]: ids of the agents run r created
  deleteCalls,      \* deleteCalls[a]: the delete_agent(a) invocations, TRUE for one that worked
  threads,          \* threads that exist at the hosting collaborator
  toolCalls,        \* toolCalls[r]: tool invocations made during run r
  runStatus,        \* runStatus[r]: status of the run handed back, None before
  listed            \* listed[r]: the messages handed back to run r, None before

orchVars == << project_client, agent_id, execution_steps, step_counter, lists,
               pc, agent, exc, recommendation, result, liveAgents, createdBy,
               deleteCalls, threads, toolCalls, runStatus, listed >>

VARIABLES
  users,            \* DataStore.users: dict user_id -> User
  products,         \* DataStore.products: dict product_id -> Product
  departments,      \* DataStore.departments: dict department_id -> Department
  suppliers,        \* DataStore.suppliers: dict supplier_id -> Supplier
  product_details,  \* DataStore.product_details: dict product_id -> list of ProductDetails
  audit_records,    \* DataStore.audit_records: list of AuditRecord
  auditCalls,       \* the arguments of the create_audit_record calls, in call order
  apc,              \* apc[c]: position of concurrent caller c inside create_audit_record
  record,           \* record[c]: local variable record of caller c, None before it is built
  call,             \* the last operation called on the store, with its arguments
  ret               \* the value that operation returned

\* The five catalog collections.
catalogVars == << users, products, departments, suppliers, product_details >>

\* The audit log and the callers appending to it.
auditVars == << audit_records, auditCalls, apc, record >>

storeVars == << catalogVars, auditVars, call, ret >>

VARIABLES
  otherAgents,      \* agents at the hosting collaborator that no run of this process created
  cpc,              \* position of the cleanup utility inside cleanup_agents
  delete_all,       \* cleanup_agents: argument delete_all
  name_filter,      \* cleanup_agents: argument name_filter
  agents,           \* cleanup_agents: local variable agents, the agents listed
  deleted_count,    \* cleanup_agents: local variable deleted_count
  cleanupCalls      \* the delete_agent calls of the utility, each with its outcome

cleanupVars == << otherAgents, cpc, delete_all, name_filter, agents,
                  deleted_count, cleanupCalls >>

vars == << orchVars, storeVars, cleanupVars >>

(***************************************************************************)
(* AgentStep, AgentResult and the step list.                               *)
(***************************************************************************)
AgentStep(n, action, reasoning, tool, params, res) ==
  [ step_number |-> n, action |-> action, reasoning |-> reasoning,
    mcp_tool_called |-> tool, mcp_tool_params |-> params, mcp_result |-> res ]

AgentResult(success, rec, reasoning, total, steps, err) ==
  [ success |-> success, recommendation |-> rec, reasoning |-> reasoning,
    total_steps |-> total, steps |-> steps, error_message |-> err ]

\* The instance's step state as one value: the counter and the content of
\* the list self.execution_steps refers to.
StepState == [ counter |-> step_counter, steps |-> lists[execution_steps] ]

\* _add_step numbering the step before it increments the counter.
add_step_stale(st, action, reasoning, tool, params, res) ==
  [ counter |-> st.counter + 1,
    steps   |-> Append(st.steps,
                       AgentStep(st.counter, action, reasoning, tool, params, res)) ]

\* _add_step: increment the counter, append a step carrying the new number.
add_step(st, action, reasoning, tool, params, res) ==
  [ counter |-> st.counter + 1,
    steps   |-> Append(st.steps,
                       AgentStep(st.counter + 1, action, reasoning, tool, params, res)) ]

\* Write a step state back to the instance.
StoreSteps(st) ==
  /\ step_counter' = st.counter
  /\ lists' = [lists EXCEPT ![execution_steps] = st.steps]

\* The scan for the assistant's response: the first assistant message with
\* content decides; inside it the first item with a text is taken.
RECURSIVE FirstText(_)
FirstText(content) ==
  IF content = <<>> THEN None
  ELSE IF Head(content).text # None THEN Head(content).text
  ELSE FirstText(Tail(content))

\* A test that takes a message with content, whoever wrote it.
IsResponseAnyRole(msg) == msg.content # <<>>

\* if msg.role == "assistant" and msg.content
IsResponse(msg) == msg.role = "assistant" /\ msg.content # <<>>

RECURSIVE ExtractRecommendation(_)
ExtractRecommendation(messages) ==
  IF messages = <<>> THEN "No response from agent"
  ELSE LET msg == Head(messages)
       IN  IF IsResponse(msg)
           THEN LET t == FirstText(msg.content)
                IN  IF t = None THEN "No response from agent"
                    ELSE CHOOSE v \in t : TRUE
           ELSE ExtractRecommendation(Tail(messages))

(***************************************************************************)
(* Initial state: a freshly constructed AzureAIFoundryAgent, no run        *)
(* started, nothing allocated at the hosting collaborator.                 *)
(***************************************************************************)
OrchInit ==
  /\ project_client = None
  /\ agent_id = None
  /\ execution_steps = 1
  /\ lists = << <<>> >>
  /\ step_counter = 0
  /\ pc = [r \in Runs |-> "idle"]
  /\ agent = [r \in Runs |-> None]
  /\ exc = [r \in Runs |-> None]
  /\ recommendation = [r \in Runs |-> None]
  /\ result = [r \in Runs |-> None]
  /\ liveAgents = {}
  /\ createdBy = [r \in Runs |-> {}]
  /\ deleteCalls = << >>
  /\ threads = {}
  /\ toolCalls = [r \in Runs |-> <<>>]
  /\ runStatus = [r \in Runs |-> None]
  /\ listed = [r \in Runs |-> None]

AllCreated == UNION { createdBy[r] : r \in Runs }

\* str(e) of the exception a failing collaborator call raises.
CallError(what) == << what >>

\* The interrupt delivered to a call blocked in the wait for the run: a
\* BaseException that is not an Exception.
KeyboardInterrupt == << "KeyboardInterrupt" >>

\* "except Exception as e": whether the handler catches e.
IsException(e) == e # KeyboardInterrupt

\* The error the check of the run status raises, without run.last_error.
RunFailedErrorBare(last_error) == << "Agent run failed" >>

\* Exception(f"Agent run failed: {run.last_error}")
RunFailedError(last_error) == << "Agent run failed: ", last_error >>

\* An exception leaves the try body of run r towards position target.
Raise(r, stre, target) ==
  /\ exc' = [exc EXCEPT ![r] = Some(stre)]
  /\ pc' = [pc EXCEPT ![r] = target]

\* agents.delete_agent(a): recorded with its outcome; it can fail, and it
\* cannot succeed for an agent that no longer exists.
delete_agent(a, ok) ==
  /\ ok => a \in liveAgents
  /\ deleteCalls' = [deleteCalls EXCEPT ![a] = Append(@, ok)]
  /\ liveAgents' = IF ok THEN liveAgents \ {a} ELSE liveAgents

(***************************************************************************)
(* process_purchase_request, one action per collaborator call.             *)
(***************************************************************************)
\* The value of the per-call variable f once call r has started: the frames
\* of the calls that have returned no longer exist, and what was observed
\* of them is dropped with them.
NewFrame(f, r, blank) ==
  [q \in Runs |-> IF q = r \/ pc[q] \in {"done", "raised"} THEN blank ELSE f[q]]

\* An entry that empties the step list it has instead of taking a new one.
StartClearsList(r) ==
  /\ pc[r] = "idle"
  /\ execution_steps' = execution_steps
  /\ lists' = [lists EXCEPT ![execution_steps] = <<>>]
  /\ step_counter' = 0
  /\ agent' = NewFrame(agent, r, None)
  /\ exc' = NewFrame(exc, r, None)
  /\ recommendation' = NewFrame(recommendation, r, None)
  /\ toolCalls' = NewFrame(toolCalls, r, <<>>)
  /\ runStatus' = NewFrame(runStatus, r, None)
  /\ listed' = NewFrame(listed, r, None)
  /\ pc' = [q \in Runs |-> IF q = r THEN "setup"
                            ELSE IF pc[q] \in {"done", "raised"} THEN "gone" ELSE pc[q]]
  /\ UNCHANGED << project_client, agent_id, result, liveAgents, createdBy,
                  deleteCalls, threads >>

\* Entry: reset the step list and the counter, agent = None.
Start(r) ==
  /\ pc[r] = "idle"
  /\ execution_steps' = Len(lists) + 1
  /\ lists' = Append(lists, <<>>)
  /\ step_counter' = 0
  /\ agent' = NewFrame(agent, r, None)
  /\ exc' = NewFrame(exc, r, None)
  /\ recommendation' = NewFrame(recommendation, r, None)
  /\ toolCalls' = NewFrame(toolCalls, r, <<>>)
  /\ runStatus' = NewFrame(runStatus, r, None)
  /\ listed' = NewFrame(listed, r, None)
  /\ pc' = [q \in Runs |-> IF q = r THEN "setup"
                            ELSE IF pc[q] \in {"done", "raised"} THEN "gone" ELSE pc[q]]
  /\ UNCHANGED << project_client, agent_id, result, liveAgents, createdBy,
                  deleteCalls, threads >>

\* _setup_project_client, the two steps around _create_mcp_tool.
SetupClient(r) ==
  /\ pc[r] = "setup"
  /\ \E ok \in BOOLEAN :
       IF ok
       THEN /\ project_client' = Some("client")
            /\ StoreSteps(add_step(
                 add_step(StepState, "Initialize Azure AI Foundry Client",
                          <<"Setting up connection to Azure AI Foundry Agent Service">>,
                          None, None, None),
                 "Create MCP Tool",
                 <<"Setup native MCP integration for business data access">>,
                 None, None, None))
            /\ pc' = [pc EXCEPT ![r] = "create_agent"]
            /\ UNCHANGED exc
       ELSE /\ Raise(r, CallError("project client setup failed"), "except")
            /\ UNCHANGED << project_client, step_counter, lists >>
  /\ UNCHANGED << agent_id, execution_steps, agent, recommendation, result,
                  liveAgents, createdBy, deleteCalls, threads, toolCalls,
                  runStatus, listed >>

\* create_agent whose value is kept in self.agent_id only, the local
\* variable agent staying None.
CreateAgentUnbound(r) ==
  /\ pc[r] = "create_agent"
  /\ \E ok \in BOOLEAN :
       IF ok
       THEN LET a == Cardinality(AllCreated) + 1
            IN  /\ liveAgents' = liveAgents \cup {a}
                /\ createdBy' = [createdBy EXCEPT ![r] = @ \cup {a}]
                /\ deleteCalls' = deleteCalls @@ (a :> <<>>)
                /\ agent_id' = Some(a)
                /\ StoreSteps(add_step(StepState, "Create Azure AI Foundry Agent",
                                       <<"Created agent with native MCP tool support">>,
                                       None, None, None))
                /\ pc' = [pc EXCEPT ![r] = "create_thread"]
                /\ UNCHANGED << exc, agent >>
       ELSE /\ Raise(r, CallError("create_agent failed"), "except")
            /\ UNCHANGED << liveAgents, createdBy, deleteCalls, agent, agent_id,
                            step_counter, lists >>
  /\ UNCHANGED << project_client, execution_steps, recommendation, result,
                  threads, toolCalls, runStatus, listed >>

\* agents.create_agent inside "with self.project_client".
CreateAgent(r) ==
  /\ pc[r] = "create_agent"
  /\ \E ok \in BOOLEAN :
       IF ok
       THEN LET a == Cardinality(AllCreated) + 1
            IN  /\ liveAgents' = liveAgents \cup {a}
                /\ createdBy' = [createdBy EXCEPT ![r] = @ \cup {a}]
                /\ deleteCalls' = deleteCalls @@ (a :> <<>>)
                /\ agent' = [agent EXCEPT ![r] = Some(a)]
                /\ agent_id' = Some(a)
                /\ StoreSteps(add_step(StepState, "Create Azure AI Foundry Agent",
                                       <<"Created agent with native MCP tool support">>,
                                       None, None, None))
                /\ pc' = [pc EXCEPT ![r] = "create_thread"]
                /\ UNCHANGED exc
       ELSE /\ Raise(r, CallError("create_agent failed"), "except")
            /\ UNCHANGED << liveAgents, createdBy, deleteCalls, agent, agent_id,
                            step_counter, lists >>
  /\ UNCHANGED << project_client, execution_steps, recommendation, result,
                  threads, toolCalls, runStatus, listed >>

\* agents.threads.create, first statement of the inner try.
CreateThread(r) ==
  /\ pc[r] = "create_thread"
  /\ \E ok \in BOOLEAN :
       IF ok
       THEN /\ threads' = threads \cup { [id |-> Cardinality(threads) + 1, run |-> r] }
            /\ pc' = [pc EXCEPT ![r] = "create_message"]
            /\ UNCHANGED exc
       ELSE /\ Raise(r, CallError("threads.create failed"), "finally")
            /\ UNCHANGED threads
  /\ UNCHANGED << project_client, agent_id, execution_steps, step_counter, lists,
                  agent, recommendation, result, liveAgents, createdBy,
                  deleteCalls, toolCalls, runStatus, listed >>

\* agents.messages.create and the step after it.
CreateMessage(r) ==
  /\ pc[r] = "create_message"
  /\ \E ok \in BOOLEAN :
       IF ok
       THEN /\ StoreSteps(add_step(StepState, "Create Conversation Thread",
                                   <<"Started conversation thread with user request">>,
                                   None, None, None))
            /\ pc' = [pc EXCEPT ![r] = "run"]
            /\ UNCHANGED exc
       ELSE /\ Raise(r, CallError("messages.create failed"), "finally")
            /\ UNCHANGED << step_counter, lists >>
  /\ UNCHANGED << project_client, agent_id, execution_steps, agent,
                  recommendation, result, liveAgents, createdBy, deleteCalls,
                  threads, toolCalls, runStatus, listed >>

\* agents.runs.create_and_process: blocks while the execution context works
\* (and makes its tool invocations), then raises, is interrupted, or hands
\* back the run; the step after it; the check of run.status.
RunAgent(r) ==
  /\ pc[r] = "run"
  /\ \E tc \in ToolCallSeqs, outcome \in RunStatuses \cup {"raise", "interrupt"},
        err \in LastErrors :
       /\ toolCalls' = [toolCalls EXCEPT ![r] = tc]
       /\ IF outcome \in {"raise", "interrupt"}
          THEN /\ Raise(r, IF outcome = "raise"
                           THEN CallError("create_and_process failed")
                           ELSE KeyboardInterrupt, "finally")
               /\ UNCHANGED << runStatus, step_counter, lists >>
          ELSE /\ runStatus' = [runStatus EXCEPT ![r] = Some(outcome)]
               /\ StoreSteps(add_step(StepState, "Execute Agent Run",
                                      <<"Agent completed with status: ", outcome>>,
                                      None, None, None))
               /\ IF outcome = "failed"
                  THEN Raise(r, RunFailedError(err), "finally")
                  ELSE /\ pc' = [pc EXCEPT ![r] = "list_messages"]
                       /\ UNCHANGED exc
  /\ UNCHANGED << project_client, agent_id, execution_steps, agent,
                  recommendation, result, liveAgents, createdBy, deleteCalls,
                  threads, listed >>

\* agents.messages.list, the scan for the response and the step after it.
ListMessages(r) ==
  /\ pc[r] = "list_messages"
  /\ \E ok \in BOOLEAN, messages \in MessagePool :
       IF ok
       THEN /\ listed' = [listed EXCEPT ![r] = Some(messages)]
            /\ recommendation' =
                 [recommendation EXCEPT ![r] = Some(ExtractRecommendation(messages))]
            /\ StoreSteps(add_step(StepState, "Get Agent Response",
                                   <<"Retrieved final recommendation from agent">>,
                                   None, None, None))
            /\ pc' = [pc EXCEPT ![r] = "finally"]
            /\ UNCHANGED exc
       ELSE /\ Raise(r, CallError("messages.list failed"), "finally")
            /\ UNCHANGED << listed, recommendation, step_counter, lists >>
  /\ UNCHANGED << project_client, agent_id, execution_steps, agent, result,
                  liveAgents, createdBy, deleteCalls, threads, toolCalls,
                  runStatus >>

\* The AgentResult of the normal return, built from the step state st.
SuccessResult(r, st) ==
  AgentResult(TRUE, CHOOSE v \in recommendation[r] : TRUE,
              <<"Azure AI Foundry Agent completed purchase request analysis using native MCP tools">>,
              Len(st.steps), execution_steps, None)

\* The failure result without its error_message argument.
FailureResultNoError(stre) ==
  LET error_msg == <<"Unexpected error during processing: ">> \o stre
  IN  AgentResult(FALSE, "Failed to process request due to unexpected error",
                  error_msg, Len(lists[execution_steps]), execution_steps, None)

\* The AgentResult of the except handler for the exception text stre.
FailureResult(stre) ==
  LET error_msg == <<"Unexpected error during processing: ">> \o stre
  IN  AgentResult(FALSE, "Failed to process request due to unexpected error",
                  error_msg, Len(lists[execution_steps]), execution_steps,
                  Some(error_msg))

\* A cleanup that deletes the agent named by self.agent_id.
AgentToDeleteShared(r) == agent_id

\* delete_agent(agent.id): the agent the local variable of run r refers to.
AgentToDelete(r) == agent[r]

\* Whether the finally clause calls delete_agent in run r.
FinallyDeletes(r) == agent[r] # None

\* A finally clause that lets the cleanup error escape.
ExcAfterFinallyEscalates(r, ok) ==
  IF FinallyDeletes(r) /\ ~ok THEN Some(CallError("delete_agent failed")) ELSE exc[r]

\* The exception that propagates out of the finally clause of run r when
\* its delete_agent call went ok or not: the cleanup error is logged and
\* swallowed, the exception pending before the clause goes on.
ExcAfterFinally(r, ok) == exc[r]

\* The finally clause of the inner try: delete the agent, add a step when
\* that worked, swallow the failure when it did not. Without a pending
\* exception the function then returns the success result; a pending
\* Exception goes on to the except handler, any other exception leaves the
\* function and reaches the caller.
FinallyCleanup(r) ==
  /\ pc[r] = "finally"
  /\ \E ok \in BOOLEAN :
       LET deleted == FinallyDeletes(r) /\ ok
           st == IF deleted
                 THEN add_step(StepState, "Clean Up Agent",
                               <<"Deleted temporary agent instance">>, None, None, None)
                 ELSE StepState
           pending == ExcAfterFinally(r, ok)
       IN  /\ IF FinallyDeletes(r)
              THEN delete_agent(CHOOSE a \in AgentToDelete(r) : TRUE, ok)
              ELSE ok /\ UNCHANGED << deleteCalls, liveAgents >>
           /\ StoreSteps(st)
           /\ exc' = [exc EXCEPT ![r] = pending]
           /\ IF pending = None
              THEN /\ result' = [result EXCEPT ![r] = Some(SuccessResult(r, st))]
                   /\ pc' = [pc EXCEPT ![r] = "done"]
              ELSE /\ pc' = [pc EXCEPT ![r] = IF \A e \in pending : IsException(e)
                                              THEN "except" ELSE "raised"]
                   /\ UNCHANGED result
  /\ UNCHANGED << project_client, agent_id, execution_steps, agent,
                  recommendation, createdBy, threads, toolCalls, runStatus, listed >>

\* Whether the except handler attempts the emergency cleanup in run r.
EmergencyDeletes(r) == project_client # None /\ agent[r] # None

\* except Exception, with an agent at hand: the emergency cleanup, then the
\* failure result. The handler enters the project client a second time,
\* after the with block has closed it; when the client refuses that, the
\* delete_agent call is not reached. Either failure is swallowed.
EmergencyCleanup(r) ==
  /\ pc[r] = "except"
  /\ EmergencyDeletes(r)
  /\ \E entered \in BOOLEAN, ok \in BOOLEAN :
       IF entered
       THEN delete_agent(CHOOSE a \in AgentToDelete(r) : TRUE, ok)
       ELSE ~ok /\ UNCHANGED << deleteCalls, liveAgents >>
  /\ result' = [result EXCEPT ![r] = Some(FailureResult(CHOOSE e \in exc[r] : TRUE))]
  /\ pc' = [pc EXCEPT ![r] = "done"]
  /\ UNCHANGED << project_client, agent_id, execution_steps, step_counter, lists,
                  agent, exc, recommendation, createdBy, threads, toolCalls,
                  runStatus, listed >>

\* except Exception, with no agent (or no client): the failure result.
ReturnFailure(r) ==
  /\ pc[r] = "except"
  /\ ~EmergencyDeletes(r)
  /\ result' = [result EXCEPT ![r] = Some(FailureResult(CHOOSE e \in exc[r] : TRUE))]
  /\ pc' = [pc EXCEPT ![r] = "done"]
  /\ UNCHANGED << project_client, agent_id, execution_steps, step_counter, lists,
                  agent, exc, recommendation, liveAgents, createdBy, deleteCalls,
                  threads, toolCalls, runStatus, listed >>

(***************************************************************************)
(* The business data store. A Python str is modelled as the sequence of    *)
(* its characters, a dict as the sequence of its (key, value) pairs in     *)
(* insertion order, a float amount of money as a whole number.             *)
(***************************************************************************)
MaxProducts == 2
MaxDepartments == 2
MaxAudit == 2
MaxCallers == 2

UpperCase == <<"A", "B", "C", "D", "E", "F", "G", "H", "I", "J", "K", "L", "M", "N", "O", "P", "Q", "R", "S", "T", "U", "V", "W", "X", "Y", "Z">>
LowerCase == <<"a", "b", "c", "d", "e", "f", "g", "h", "i", "j", "k", "l", "m", "n", "o", "p", "q", "r", "s", "t", "u", "v", "w", "x", "y", "z">>

\* A lower() that leaves the string as it is.
lower_unchanged(str) == str

\* str.lower() on one character and on a string.
LowerChar(c) ==
  IF \E i \in 1..Len(UpperCase) : UpperCase[i] = c
  THEN LowerCase[CHOOSE i \in 1..Len(UpperCase) : UpperCase[i] = c]
  ELSE c

lower(str) == [i \in 1..Len(str) |-> LowerChar(str[i])]

\* Python's "sub in str" on strings.
Contains(sub, str) ==
  \E k \in 0..(Len(str) - Len(sub)) :
    \A i \in 1..Len(sub) : str[k + i] = sub[i]

\* "x in list" on a Python list.
InList(x, list) == \E i \in 1..Len(list) : list[i] = x

\* dict[key] = value, dict.get(key) and dict.values().
DictPut(dict, key, value) ==
  IF \E i \in 1..Len(dict) : dict[i][1] = key
  THEN [i \in 1..Len(dict) |-> IF dict[i][1] = key THEN <<key, value>> ELSE dict[i]]
  ELSE Append(dict, <<key, value>>)

DictGet(dict, key) == { dict[i][2] : i \in { j \in 1..Len(dict) : dict[j][1] = key } }

DictValues(dict) == [i \in 1..Len(dict) |-> dict[i][2]]

S_computer == <<"c", "o", "m", "p", "u", "t", "e", "r">>
S_laptop == <<"l", "a", "p", "t", "o", "p">>
S_pc == <<"p", "c">>
S_workstation == <<"w", "o", "r", "k", "s", "t", "a", "t", "i", "o", "n">>
S_chair == <<"c", "h", "a", "i", "r">>
S_seat == <<"s", "e", "a", "t">>
S_printer_paper == <<"p", "r", "i", "n", "t", "e", "r", " ", "p", "a", "p", "e", "r">>
S_paper == <<"p", "a", "p", "e", "r">>
S_notebook == <<"n", "o", "t", "e", "b", "o", "o", "k">>

\* The keys of equivalent_mappings, in the order of the dict literal, and
\* the list each key maps to.
EquivalentKeys == << S_computer, S_chair, S_printer_paper, S_paper >>

equivalent_mappings(key) ==
  CASE key = S_computer      -> << S_laptop, S_pc, S_workstation >>
    [] key = S_chair         -> << S_chair, S_seat >>
    [] key = S_printer_paper -> << S_notebook, S_paper >>
    [] key = S_paper         -> << S_notebook, S_paper >>

\* Records products.json can hold; two of them carry the same productId.
ProductSource ==
  { [productId |-> "LAPTOP-001", name |-> <<"B", "u", "s", "i", "n", "e", "s", "s", " ", "L", "a", "p", "t", "o", "p">>,
     description |-> <<"P", "C", " ", "f", "o", "r", " ", "w", "o", "r", "k">>, category |-> "electronics"],
    [productId |-> "DESK-001", name |-> <<"D", "e", "s", "k", "t", "o", "p", " ", "C", "o", "m", "p", "u", "t", "e", "r">>,
     description |-> <<"W", "o", "r", "k", "s", "t", "a", "t", "i", "o", "n">>, category |-> "electronics"],
    [productId |-> "CHAIR-001", name |-> <<"O", "f", "f", "i", "c", "e", " ", "C", "h", "a", "i", "r">>,
     description |-> <<"S", "e", "a", "t">>, category |-> "furniture"],
    [productId |-> "PAPER-001", name |-> <<"P", "r", "i", "n", "t", "e", "r", " ", "P", "a", "p", "e", "r">>,
     description |-> <<"A", "4">>, category |-> "office"],
    [productId |-> "NOTE-001", name |-> <<"N", "o", "t", "e", "b", "o", "o", "k">>,
     description |-> <<"P", "a", "d">>, category |-> "office"],
    [productId |-> "LAPTOP-001", name |-> <<"G", "a", "m", "i", "n", "g", " ", "L", "a", "p", "t", "o", "p">>,
     description |-> <<"C", "o", "m", "p", "u", "t", "e", "r">>, category |-> "electronics"] }

\* Search terms: the keys, keys in another letter case, with whitespace
\* around, inside a longer word, synonyms, a product name, the empty string.
SearchTerms ==
  { <<"c", "o", "m", "p", "u", "t", "e", "r">>,
    <<"C", "o", "m", "p", "u", "t", "e", "r">>,
    <<"c", "o", "m", "p", "u", "t", "e", "r", "s">>,
    <<" ", "c", "o", "m", "p", "u", "t", "e", "r">>,
    <<"l", "a", "p", "t", "o", "p">>,
    <<"B", "u", "s", "i", "n", "e", "s", "s", " ", "L", "a", "p", "t", "o", "p">>,
    <<"c", "h", "a", "i", "r">>,
    <<"p", "a", "p", "e", "r">>,
    <<"p", "r", "i", "n", "t", "e", "r", " ", "p", "a", "p", "e", "r">>,
    <<"P", "r", "i", "n", "t", "e", "r", " ", "P", "a", "p", "e", "r", " ">>,
    <<"s", "e", "a", "t">>,
    <<"p", "c">>,
    <<>> }

\* Records departments.json can hold; two of them carry the same
\* departmentId, one budget is below the spent amount, one equals it.
DepartmentSource ==
  { [departmentId |-> "IT", name |-> "Information Technology", monthlyBudget |-> 50000],
    [departmentId |-> "IT", name |-> "IT Operations", monthlyBudget |-> 1000],
    [departmentId |-> "HR", name |-> "Human Resources", monthlyBudget |-> 2500] }

DepartmentIds == {"IT", "HR", "nonexistent"}

\* The mock spent amount of get_department_budget.
SpentThisMonth == 2500

Product(id, name, description, category) ==
  [ product_id |-> id, name |-> name, description |-> description,
    category |-> category ]

Department(id, name, budget) ==
  [ department_id |-> id, name |-> name, monthly_budget |-> budget ]

DepartmentBudget(id, budget, spent, remaining) ==
  [ department_id |-> id, monthly_budget |-> budget,
    spent_this_month |-> spent, remaining_budget |-> remaining ]

User(id, name, department) ==
  [ user_id |-> id, name |-> name, department_id |-> department ]

Supplier(id, name, score, contact) ==
  [ supplier_id |-> id, name |-> name, reliability_score |-> score,
    contact_info |-> contact ]

ProductDetails(product, supplier, price, availability, days, minimum) ==
  [ product_id |-> product, supplier_id |-> supplier, price |-> price,
    availability |-> availability, delivery_days |-> days,
    minimum_order |-> minimum ]

\* An audit record; its timestamp, the wall clock at creation, is left out.
AuditRecord(user_id, action, details, decision_reasoning) ==
  [ user_id |-> user_id, action |-> action, details |-> details,
    decision_reasoning |-> decision_reasoning ]

\* Records users.json can hold: two carry the same userId, one names a
\* department no source has.
U_Alice == [userId |-> "alice-001", name |-> "Alice Johnson", departmentId |-> "IT"]
U_Alice2 == [userId |-> "alice-001", name |-> "Alice Smith", departmentId |-> "HR"]
U_Bob == [userId |-> "bob-002", name |-> "Bob Brown", departmentId |-> "GHOST"]

UserIds == {"alice-001", "bob-002", "nonexistent"}

\* Records suppliers.json can hold; reliabilityScore and contactInfo are
\* optional keys.
SUP_Tech == [supplierId |-> "tech-supplier-01", name |-> "Tech Supplies",
             reliabilityScore |-> Some(9), contactInfo |-> Some("sales@tech")]
SUP_Office == [supplierId |-> "office-supplier-02", name |-> "Office Depot",
               reliabilityScore |-> None, contactInfo |-> None]

SupplierIds == {"tech-supplier-01", "office-supplier-02", "nonexistent"}

\* Records product_details.json can hold: two offers for one product from
\* two suppliers, a second offer of the same supplier for the same product,
\* an offer for another product; minimumOrder is an optional key.
PD_LaptopTech == [productId |-> "LAPTOP-001", supplierId |-> "tech-supplier-01",
                  price |-> 1000, availability |-> "in_stock", deliveryDays |-> 3,
                  minimumOrder |-> None]
PD_LaptopOffice == [productId |-> "LAPTOP-001", supplierId |-> "office-supplier-02",
                    price |-> 900, availability |-> "in_stock", deliveryDays |-> 7,
                    minimumOrder |-> Some(5)]
PD_LaptopTech2 == [productId |-> "LAPTOP-001", supplierId |-> "tech-supplier-01",
                   price |-> 950, availability |-> "limited", deliveryDays |-> 1,
                   minimumOrder |-> None]
PD_ChairOffice == [productId |-> "CHAIR-001", supplierId |-> "office-supplier-02",
                   price |-> 200, availability |-> "in_stock", deliveryDays |-> 2,
                   minimumOrder |-> None]

ProductIds == {"LAPTOP-001", "DESK-001", "CHAIR-001", "nonexistent"}

\* The supplier_id argument of get_product_details: absent, the empty
\* string, a supplier.
SupplierArgs == {None, Some(""), Some("tech-supplier-01"), Some("office-supplier-02")}

P_Laptop == CHOOSE p \in ProductSource : p.productId = "LAPTOP-001" /\ p.name[1] = "B"
P_Gaming == CHOOSE p \in ProductSource : p.productId = "LAPTOP-001" /\ p.name[1] = "G"
P_Desk == CHOOSE p \in ProductSource : p.productId = "DESK-001"
P_Chair == CHOOSE p \in ProductSource : p.productId = "CHAIR-001"
D_IT == CHOOSE d \in DepartmentSource : d.monthlyBudget = 50000
D_IT2 == CHOOSE d \in DepartmentSource : d.monthlyBudget = 1000
D_HR == CHOOSE d \in DepartmentSource : d.departmentId = "HR"

\* Contents of the data directory: empty files; a consistent catalog in
\* which one product has no offer; repeated ids in every file; offers listed
\* in another order, for products and by suppliers the other files lack.
DataDirs ==
  { [users |-> <<>>, departments |-> <<>>, products |-> <<>>, suppliers |-> <<>>,
     product_details |-> <<>>],
    [users |-> <<U_Alice>>, departments |-> <<D_IT, D_HR>>,
     products |-> <<P_Laptop, P_Desk>>, suppliers |-> <<SUP_Tech, SUP_Office>>,
     product_details |-> <<PD_LaptopTech, PD_LaptopOffice>>],
    [users |-> <<U_Alice, U_Alice2>>, departments |-> <<D_IT, D_IT2>>,
     products |-> <<P_Laptop, P_Gaming>>, suppliers |-> <<SUP_Tech>>,
     product_details |-> <<PD_LaptopTech, PD_LaptopTech2>>],
    [users |-> <<U_Bob, U_Alice>>, departments |-> <<D_HR>>,
     products |-> <<P_Desk>>, suppliers |-> <<SUP_Office>>,
     product_details |-> <<PD_ChairOffice, PD_LaptopOffice, PD_LaptopTech>>] }

\* The arguments of create_audit_record calls.
AuditArgs ==
  { [user_id |-> "alice-001", action |-> "purchase_approved",
     details |-> [product_id |-> "LAPTOP-001"], decision_reasoning |-> Some("Best price")],
    [user_id |-> "bob-002", action |-> "purchase_denied",
     details |-> [reason |-> "budget"], decision_reasoning |-> None] }

\* _load_users: one User per source record, stored under its id.
RECURSIVE load_users(_, _)
load_users(dict, data) ==
  IF data = <<>> THEN dict
  ELSE LET user_data == Head(data)
           user == User(user_data.userId, user_data.name, user_data.departmentId)
       IN  load_users(DictPut(dict, user.user_id, user), Tail(data))

\* dict.get(key, default) on an optional key of a source record.
GetOr(value, default) == IF value = None THEN default ELSE CHOOSE v \in value : TRUE

\* _load_suppliers: one Supplier per source record, stored under its id.
RECURSIVE load_suppliers(_, _)
load_suppliers(dict, data) ==
  IF data = <<>> THEN dict
  ELSE LET supplier_data == Head(data)
           supplier == Supplier(supplier_data.supplierId, supplier_data.name,
                                GetOr(supplier_data.reliabilityScore, 7),
                                GetOr(supplier_data.contactInfo, ""))
       IN  load_suppliers(DictPut(dict, supplier.supplier_id, supplier), Tail(data))

\* _load_product_details: every source record is appended to the list kept
\* under its product id.
RECURSIVE load_product_details(_, _)
load_product_details(dict, data) ==
  IF data = <<>> THEN dict
  ELSE LET detail_data == Head(data)
           detail == ProductDetails(detail_data.productId, detail_data.supplierId,
                                    detail_data.price, detail_data.availability,
                                    detail_data.deliveryDays,
                                    GetOr(detail_data.minimumOrder, 1))
           product_id == detail.product_id
           started == IF DictGet(dict, product_id) = None
                      THEN DictPut(dict, product_id, <<>>)
                      ELSE dict
           list == CHOOSE l \in DictGet(started, product_id) : TRUE
       IN  load_product_details(DictPut(started, product_id, Append(list, detail)),
                                Tail(data))

\* _load_products: one Product per source record, stored under its id.
RECURSIVE load_products(_, _)
load_products(dict, data) ==
  IF data = <<>> THEN dict
  ELSE LET product_data == Head(data)
           product == Product(product_data.productId, product_data.name,
                              product_data.description, product_data.category)
       IN  load_products(DictPut(dict, product.product_id, product), Tail(data))

\* _load_departments: one Department per source record, stored under its id.
RECURSIVE load_departments(_, _)
load_departments(dict, data) ==
  IF data = <<>> THEN dict
  ELSE LET dept_data == Head(data)
           department == Department(dept_data.departmentId, dept_data.name,
                                    dept_data.monthlyBudget)
       IN  load_departments(DictPut(dict, department.department_id, department),
                            Tail(data))

\* No caller is inside create_audit_record.
Callers == 1..MaxCallers

CallersIdle ==
  /\ apc = [c \in Callers |-> "idle"]
  /\ record = [c \in Callers |-> None]

\* The store of a process that has loaded empty sources.
StoreEmpty ==
  /\ users = <<>>
  /\ products = <<>>
  /\ departments = <<>>
  /\ suppliers = <<>>
  /\ product_details = <<>>
  /\ audit_records = <<>>
  /\ auditCalls = <<>>
  /\ CallersIdle
  /\ call = [op |-> "none"]
  /\ ret = None

\* DataStore.__init__: the products and departments after _load_all_data,
\* for every content of their source files within the bounds; the other
\* source files are empty.
StoreInit ==
  /\ \E data \in SeqsUpTo(ProductSource, MaxProducts) :
       products = load_products(<<>>, data)
  /\ \E data \in SeqsUpTo(DepartmentSource, MaxDepartments) :
       departments = load_departments(<<>>, data)
  /\ users = load_users(<<>>, <<>>)
  /\ suppliers = load_suppliers(<<>>, <<>>)
  /\ product_details = load_product_details(<<>>, <<>>)
  /\ audit_records = <<>>
  /\ auditCalls = <<>>
  /\ CallersIdle
  /\ call = [op |-> "none"]
  /\ ret = None

\* DataStore.__init__: the five collections after _load_all_data, for every
\* data directory.
CatalogInit ==
  /\ \E dir \in DataDirs :
       /\ users = load_users(<<>>, dir.users)
       /\ departments = load_departments(<<>>, dir.departments)
       /\ products = load_products(<<>>, dir.products)
       /\ suppliers = load_suppliers(<<>>, dir.suppliers)
       /\ product_details = load_product_details(<<>>, dir.product_details)
  /\ audit_records = <<>>
  /\ auditCalls = <<>>
  /\ CallersIdle
  /\ call = [op |-> "none"]
  /\ ret = None

get_department(department_id) == DictGet(departments, department_id)

\* A remaining budget that is clamped to zero.
RemainingBudgetClamped(monthly_budget, spent_this_month) ==
  IF monthly_budget - spent_this_month < 0 THEN 0
  ELSE monthly_budget - spent_this_month

\* remaining = department.monthly_budget - spent_this_month
RemainingBudget(monthly_budget, spent_this_month) == monthly_budget - spent_this_month

get_department_budget(department_id) ==
  LET department == get_department(department_id)
  IN  IF department = None THEN None
      ELSE LET dept == CHOOSE x \in department : TRUE
               spent_this_month == SpentThisMonth
               remaining == RemainingBudget(dept.monthly_budget, spent_this_month)
           IN  Some(DepartmentBudget(department_id, dept.monthly_budget,
                                     spent_this_month, remaining))

\* The test of both passes: the term is in the lowercased name or in the
\* lowercased description.
Matches(term, product) ==
  \/ Contains(term, lower(product.name))
  \/ Contains(term, lower(product.description))

\* The first loop of search_products.
RECURSIVE DirectSearch(_, _, _)
DirectSearch(search_term, values, results) ==
  IF values = <<>> THEN results
  ELSE LET product == Head(values)
       IN  DirectSearch(search_term, Tail(values),
                        IF Matches(search_term, product)
                        THEN Append(results, product) ELSE results)

\* An equivalence pass without the membership test.
AvoidDuplicateOff(product, results) == TRUE

\* Whether the equivalence pass appends a matching product.
AvoidDuplicate(product, results) == ~InList(product, results)

\* The inner loop of the equivalence pass, for one equivalent term.
RECURSIVE EquivalentScan(_, _, _)
EquivalentScan(equivalent_term, values, results) ==
  IF values = <<>> THEN results
  ELSE LET product == Head(values)
       IN  EquivalentScan(equivalent_term, Tail(values),
                          IF Matches(equivalent_term, product)
                             /\ AvoidDuplicate(product, results)
                          THEN Append(results, product) ELSE results)

\* The outer loop of the equivalence pass.
RECURSIVE EquivalentSearch(_, _, _)
EquivalentSearch(terms, values, results) ==
  IF terms = <<>> THEN results
  ELSE EquivalentSearch(Tail(terms), values,
                        EquivalentScan(Head(terms), values, results))

\* search_term = name.lower()
SearchTerm(name) == lower(name)

\* search_products that runs the equivalence pass for every term containing
\* a key.
search_products_key_inside(name) ==
  LET search_term == SearchTerm(name)
      values == DictValues(products)
      results == DirectSearch(search_term, values, <<>>)
      keys == { k \in 1..Len(EquivalentKeys) : Contains(EquivalentKeys[k], search_term) }
  IN  IF keys # {}
      THEN EquivalentSearch(
             equivalent_mappings(EquivalentKeys[CHOOSE k \in keys : \A j \in keys : k <= j]),
             values, results)
      ELSE results

\* search_products that hands back its matches last match first.
search_products_reversed(name) ==
  LET search_term == SearchTerm(name)
      values == DictValues(products)
      results == DirectSearch(search_term, values, <<>>)
      found == IF InList(search_term, EquivalentKeys)
               THEN EquivalentSearch(equivalent_mappings(search_term), values, results)
               ELSE results
  IN  [i \in 1..Len(found) |-> found[Len(found) + 1 - i]]

search_products(name) ==
  LET search_term == SearchTerm(name)
      values == DictValues(products)
      results == DirectSearch(search_term, values, <<>>)
  IN  IF InList(search_term, EquivalentKeys)
      THEN EquivalentSearch(equivalent_mappings(search_term), values, results)
      ELSE results

get_user(user_id) == DictGet(users, user_id)

get_supplier(supplier_id) == DictGet(suppliers, supplier_id)

\* "if supplier_id:" on an optional string: None and "" are false.
Truthy(supplier_id) == supplier_id # None /\ supplier_id # Some("")

\* [d for d in details if d.supplier_id == supplier_id]
FilterBySupplier(details, supplier_id) ==
  SelectSeq(details, LAMBDA d : d.supplier_id = supplier_id)

\* get_product_details that ignores its supplier_id.
get_product_details_unfiltered(product_id, supplier_id) ==
  GetOr(DictGet(product_details, product_id), <<>>)

get_product_details(product_id, supplier_id) ==
  LET details == GetOr(DictGet(product_details, product_id), <<>>)
  IN  IF Truthy(supplier_id)
      THEN FilterBySupplier(details, CHOOSE v \in supplier_id : TRUE)
      ELSE details

\* A record built without the caller's decision_reasoning.
BuildRecordNoReasoning(args) ==
  AuditRecord(args.user_id, args.action, args.details, None)

\* The record create_audit_record builds from its arguments.
BuildRecord(args) ==
  AuditRecord(args.user_id, args.action, args.details, args.decision_reasoning)

\* An append that writes back a list read earlier: the records appended
\* since the read are dropped.
AppendRecordStale(list, rec) ==
  LET n == IF list = <<>> THEN 0 ELSE Len(list) - 1
  IN  Append(SubSeq(list, 1, n), rec)

\* self.audit_records.append(record): one indivisible operation on the list.
AppendRecord(list, rec) == Append(list, rec)

(***************************************************************************)
(* The tools of the server: each wraps one operation of the store and      *)
(* either returns a value or raises an error.                              *)
(***************************************************************************)
ToolOk(value) == [ok |-> TRUE, value |-> value]

ToolError(message) == [ok |-> FALSE, error |-> message]

\* model.model_dump(): the dict of the model's fields.
model_dump(model) == model

\* The tool get_user returning an empty result for an unknown id.
tool_get_user_lenient(user_id) ==
  LET user == get_user(user_id)
  IN  IF user = None
      THEN ToolOk(None)
      ELSE ToolOk(model_dump(CHOOSE u \in user : TRUE))

tool_get_user(user_id) ==
  LET user == get_user(user_id)
  IN  IF user = None
      THEN ToolError(<<"User with ID ", user_id, " not found">>)
      ELSE ToolOk(model_dump(CHOOSE u \in user : TRUE))

tool_get_department_policy(department_id) ==
  LET department == get_department(department_id)
  IN  IF department = None
      THEN ToolError(<<"Department with ID ", department_id, " not found">>)
      ELSE ToolOk(model_dump(CHOOSE d \in department : TRUE))

tool_get_department_budget(department_id) ==
  LET budget == get_department_budget(department_id)
  IN  IF budget = None
      THEN ToolError(<<"Department with ID ", department_id, " not found">>)
      ELSE ToolOk(model_dump(CHOOSE b \in budget : TRUE))

tool_search_products(name) ==
  LET found == search_products(name)
  IN  ToolOk([i \in 1..Len(found) |-> model_dump(found[i])])

tool_get_product_details(product_id, supplier_id) ==
  LET details == get_product_details(product_id, supplier_id)
  IN  IF details = <<>>
      THEN ToolError(<<"No product details found for product ", product_id>>)
      ELSE ToolOk([i \in 1..Len(details) |-> model_dump(details[i])])

tool_get_supplier_info(supplier_id) ==
  LET supplier == get_supplier(supplier_id)
  IN  IF supplier = None
      THEN ToolError(<<"Supplier with ID ", supplier_id, " not found">>)
      ELSE ToolOk(model_dump(CHOOSE x \in supplier : TRUE))

(***************************************************************************)
(* The operations of the store, as called by the tools.                    *)
(***************************************************************************)
SearchProducts ==
  /\ \E name \in SearchTerms :
       /\ call' = [op |-> "search_products", name |-> name]
       /\ ret' = search_products(name)
  /\ UNCHANGED << catalogVars, auditVars >>

GetDepartmentBudget ==
  /\ \E department_id \in DepartmentIds :
       /\ call' = [op |-> "get_department_budget", department_id |-> department_id]
       /\ ret' = get_department_budget(department_id)
  /\ UNCHANGED << catalogVars, auditVars >>

StoreNext ==
  \/ SearchProducts
  \/ GetDepartmentBudget

\* The lookups of the store.
GetUser ==
  /\ \E user_id \in UserIds :
       /\ call' = [op |-> "get_user", user_id |-> user_id]
       /\ ret' = get_user(user_id)
  /\ UNCHANGED << catalogVars, auditVars >>

GetDepartment ==
  /\ \E department_id \in DepartmentIds :
       /\ call' = [op |-> "get_department", department_id |-> department_id]
       /\ ret' = get_department(department_id)
  /\ UNCHANGED << catalogVars, auditVars >>

GetSupplier ==
  /\ \E supplier_id \in SupplierIds :
       /\ call' = [op |-> "get_supplier", supplier_id |-> supplier_id]
       /\ ret' = get_supplier(supplier_id)
  /\ UNCHANGED << catalogVars, auditVars >>

\* get_product_details that enters an empty list for a product id it does
\* not hold.
GetProductDetailsSetDefault ==
  /\ \E product_id \in ProductIds, supplier_id \in SupplierArgs :
       /\ call' = [op |-> "get_product_details", product_id |-> product_id,
                   supplier_id |-> supplier_id]
       /\ ret' = get_product_details(product_id, supplier_id)
       /\ product_details' = IF DictGet(product_details, product_id) = None
                             THEN DictPut(product_details, product_id, <<>>)
                             ELSE product_details
  /\ UNCHANGED << users, products, departments, suppliers, auditVars >>

GetProductDetails ==
  /\ \E product_id \in ProductIds, supplier_id \in SupplierArgs :
       /\ call' = [op |-> "get_product_details", product_id |-> product_id,
                   supplier_id |-> supplier_id]
       /\ ret' = get_product_details(product_id, supplier_id)
  /\ UNCHANGED << catalogVars, auditVars >>

\* The tools.
ToolGetUser ==
  /\ \E user_id \in UserIds :
       /\ call' = [op |-> "tool_get_user", user_id |-> user_id]
       /\ ret' = tool_get_user(user_id)
  /\ UNCHANGED << catalogVars, auditVars >>

ToolGetDepartmentPolicy ==
  /\ \E department_id \in DepartmentIds :
       /\ call' = [op |-> "tool_get_department_policy", department_id |-> department_id]
       /\ ret' = tool_get_department_policy(department_id)
  /\ UNCHANGED << catalogVars, auditVars >>

ToolGetDepartmentBudget ==
  /\ \E department_id \in DepartmentIds :
       /\ call' = [op |-> "tool_get_department_budget", department_id |-> department_id]
       /\ ret' = tool_get_department_budget(department_id)
  /\ UNCHANGED << catalogVars, auditVars >>

ToolSearchProducts ==
  /\ \E name \in SearchTerms :
       /\ call' = [op |-> "tool_search_products", name |-> name]
       /\ ret' = tool_search_products(name)
  /\ UNCHANGED << catalogVars, auditVars >>

ToolGetProductDetails ==
  /\ \E product_id \in ProductIds, supplier_id \in SupplierArgs :
       /\ call' = [op |-> "tool_get_product_details", product_id |-> product_id,
                   supplier_id |-> supplier_id]
       /\ ret' = tool_get_product_details(product_id, supplier_id)
  /\ UNCHANGED << catalogVars, auditVars >>

ToolGetSupplierInfo ==
  /\ \E supplier_id \in SupplierIds :
       /\ call' = [op |-> "tool_get_supplier_info", supplier_id |-> supplier_id]
       /\ ret' = tool_get_supplier_info(supplier_id)
  /\ UNCHANGED << catalogVars, auditVars >>

\* The tool create_audit_record: the store builds the record, appends it
\* and hands it back; the tool returns its dict.
ToolCreateAuditRecord ==
  /\ Len(auditCalls) < MaxAudit
  /\ \E args \in AuditArgs :
       LET rec == BuildRecord(args)
       IN  /\ auditCalls' = Append(auditCalls, args)
           /\ audit_records' = AppendRecord(audit_records, rec)
           /\ call' = [op |-> "tool_create_audit_record", args |-> args]
           /\ ret' = ToolOk(model_dump(rec))
  /\ UNCHANGED << catalogVars, apc, record >>

ToolNext ==
  \/ GetUser
  \/ GetDepartment
  \/ GetSupplier
  \/ GetProductDetails
  \/ ToolGetUser
  \/ ToolGetDepartmentPolicy
  \/ ToolGetDepartmentBudget
  \/ ToolSearchProducts
  \/ ToolGetProductDetails
  \/ ToolGetSupplierInfo
  \/ ToolCreateAuditRecord

(***************************************************************************)
(* create_audit_record called by several callers at once: a caller builds  *)
(* its record, appends it, and returns it.                                 *)
(***************************************************************************)
AuditBuild(c) ==
  /\ apc[c] = "idle"
  /\ Len(auditCalls) < MaxAudit
  /\ \E args \in AuditArgs :
       /\ auditCalls' = Append(auditCalls, args)
       /\ record' = [record EXCEPT ![c] = Some(BuildRecord(args))]
       /\ call' = [op |-> "create_audit_record", args |-> args, caller |-> c]
  /\ apc' = [apc EXCEPT ![c] = "built"]
  /\ UNCHANGED << catalogVars, audit_records, ret >>

AuditAppend(c) ==
  /\ apc[c] = "built"
  /\ audit_records' = AppendRecord(audit_records, CHOOSE rec \in record[c] : TRUE)
  /\ apc' = [apc EXCEPT ![c] = "appended"]
  /\ UNCHANGED << catalogVars, auditCalls, record, call, ret >>

AuditReturn(c) ==
  /\ apc[c] = "appended"
  /\ ret' = record[c]
  /\ record' = [record EXCEPT ![c] = None]
  /\ apc' = [apc EXCEPT ![c] = "idle"]
  /\ UNCHANGED << catalogVars, audit_records, auditCalls, call >>

AuditNext ==
  \E c \in Callers :
    \/ AuditBuild(c)
    \/ AuditAppend(c)
    \/ AuditReturn(c)

(***************************************************************************)
(* The cleanup utility, cleanup_agents.                                    *)
(***************************************************************************)
\* The name process_purchase_request gives its agents, and the default
\* name_filter of the utility.
S_purchase_order_agent == <<"p", "u", "r", "c", "h", "a", "s", "e", "-", "o", "r", "d", "e", "r", "-", "a", "g", "e", "n", "t">>

\* Agents other processes left at the hosting collaborator: one with the
\* name of the orchestrator's agents inside its own, one with another name.
OtherAgentPool ==
  { [id |-> 101, name |-> <<"o", "l", "d", "-", "p", "u", "r", "c", "h", "a", "s", "e", "-", "o", "r", "d", "e", "r", "-", "a", "g", "e", "n", "t", "-", "2">>],
    [id |-> 102, name |-> <<"r", "e", "s", "e", "a", "r", "c", "h", "-", "a", "g", "e", "n", "t">>] }

\* The name_filter arguments: the default, a part of it, the empty string,
\* a text no name contains.
NameFilters == { S_purchase_order_agent, <<"o", "r", "d", "e", "r">>, <<>>, <<"d", "e", "m", "o">> }

\* agent.name of an agent at the hosting collaborator.
AgentName(a) ==
  IF \E o \in OtherAgentPool : o.id = a
  THEN (CHOOSE o \in OtherAgentPool : o.id = a).name
  ELSE S_purchase_order_agent

\* list_agents: the agents that exist, here in the order of their ids.
RECURSIVE ListOf(_)
ListOf(S) ==
  IF S = {} THEN <<>>
  ELSE LET a == CHOOSE x \in S : \A y \in S : x <= y
       IN  <<a>> \o ListOf(S \ {a})

list_agents == ListOf(liveAgents \cup otherAgents)

\* The filter loop: the listed agents whose name contains name_filter.
MatchingAgents(listed_agents, filter) ==
  SelectSeq(listed_agents, LAMBDA a : Contains(filter, AgentName(a)))

\* No cleanup utility is running, and the collaborator holds no agent of
\* another process.
CleanupIdle ==
  /\ otherAgents = {}
  /\ cpc = "idle"
  /\ delete_all = FALSE
  /\ name_filter = <<>>
  /\ agents = <<>>
  /\ deleted_count = 0
  /\ cleanupCalls = <<>>

\* A counter that counts every delete_agent call.
CountAttempt(count, ok) == count + 1

\* deleted_count += 1, reached only when delete_agent did not raise.
CountDeleted(count, ok) == IF ok THEN count + 1 ELSE count

\* cleanup_agents up to the delete loop: list_agents, the filter, and the
\* early returns when the endpoint is not configured or list_agents raises
\* (ok is false), nothing matches, or delete_all is False.
CleanupList ==
  /\ cpc = "idle"
  /\ \E da \in BOOLEAN, nf \in NameFilters, ok \in BOOLEAN :
       /\ delete_all' = da
       /\ name_filter' = nf
       /\ agents' = IF ok THEN list_agents ELSE <<>>
       /\ cpc' = IF ok /\ da /\ MatchingAgents(list_agents, nf) # <<>>
                 THEN "deleting" ELSE "done"
  /\ UNCHANGED << otherAgents, deleted_count, cleanupCalls >>
  /\ UNCHANGED << orchVars, storeVars >>

\* One turn of the delete loop: delete_agent for the next matching agent,
\* counted when it worked, reported and passed over when it raised.
CleanupDelete ==
  /\ cpc = "deleting"
  /\ LET matching_agents == MatchingAgents(agents, name_filter)
         a == matching_agents[Len(cleanupCalls) + 1]
     IN  \E ok \in BOOLEAN :
           /\ ok => a \in liveAgents \cup otherAgents
           /\ cleanupCalls' = Append(cleanupCalls, [agent |-> a, ok |-> ok])
           /\ liveAgents' = IF ok THEN liveAgents \ {a} ELSE liveAgents
           /\ otherAgents' = IF ok THEN otherAgents \ {a} ELSE otherAgents
           /\ deleted_count' = CountDeleted(deleted_count, ok)
           /\ cpc' = IF Len(cleanupCalls) + 1 = Len(matching_agents)
                     THEN "done" ELSE "deleting"
  /\ UNCHANGED << delete_all, name_filter, agents >>
  /\ UNCHANGED << project_client, agent_id, execution_steps, step_counter, lists,
                  pc, agent, exc, recommendation, result, createdBy,
                  deleteCalls, threads, toolCalls, runStatus, listed >>
  /\ UNCHANGED storeVars

(***************************************************************************)
(* Specifications.                                                         *)
(***************************************************************************)
\* Runs on one instance, one after the other: a run starts when every
\* earlier run has returned.
StartNext(r) ==
  /\ \A q \in Runs : pc[q] \in {"idle", "done", "raised", "gone"}
  /\ \A q \in Runs : q < r => pc[q] \in {"done", "raised", "gone"}
  /\ Start(r)

\* The agent process: purchase requests on one AzureAIFoundryAgent.
Init == OrchInit /\ StoreEmpty /\ CleanupIdle

OrchNext ==
  \E r \in Runs :
    \/ StartNext(r)
    \/ SetupClient(r)
    \/ CreateAgent(r)
    \/ CreateThread(r)
    \/ CreateMessage(r)
    \/ RunAgent(r)
    \/ ListMessages(r)
    \/ FinallyCleanup(r)
    \/ EmergencyCleanup(r)
    \/ ReturnFailure(r)

Next == OrchNext /\ UNCHANGED << storeVars, cleanupVars >>

Spec == Init /\ [][Next]_vars

\* The agent process with two calls on one AzureAIFoundryAgent from two
\* threads: a call starts whatever the other call is doing, and the calls
\* take turns at their collaborator calls. The execution context makes no
\* tool invocation here and every thread lists the same messages.
Threads == {1, 2}

ConcMessages == CHOOSE messages \in MessagePool : \E i \in 1..Len(messages) :
                  messages[i].role = "assistant" /\ messages[i].content # <<>>
                    /\ messages[i].content[1].text # None

ConcAnswers ==
  \A r \in Runs :
    /\ toolCalls'[r] = <<>>
    /\ listed'[r] \in {None, Some(ConcMessages)}

ConcNext ==
  \E r \in Threads :
    \/ pc[r] = "idle" /\ Start(r)
    \/ SetupClient(r)
    \/ CreateAgent(r)
    \/ CreateThread(r)
    \/ CreateMessage(r)
    \/ RunAgent(r)
    \/ ListMessages(r)
    \/ FinallyCleanup(r)
    \/ EmergencyCleanup(r)
    \/ ReturnFailure(r)

ConcStep == ConcNext /\ ConcAnswers /\ UNCHANGED << storeVars, cleanupVars >>

ConcSpec == Init /\ [][ConcStep]_vars

\* The agent process and the cleanup utility working on the same hosting
\* collaborator, which also holds agents of other processes: runs one
\* two calls of process_purchase_request one after the other, one call of
\* cleanup_agents at any moment. The execution context makes no tool
\* invocation here and every thread lists the same messages.
CleanupInit ==
  /\ OrchInit
  /\ StoreEmpty
  /\ \E S \in SUBSET { o.id : o \in OtherAgentPool } : otherAgents = S
  /\ cpc = "idle"
  /\ delete_all = FALSE
  /\ name_filter = <<>>
  /\ agents = <<>>
  /\ deleted_count = 0
  /\ cleanupCalls = <<>>

\* The calls of this scenario are those of the two threads.
OnlyThreads == \A r \in Runs \ Threads : pc'[r] = pc[r]

CleanupNext ==
  \/ OrchNext /\ OnlyThreads /\ ConcAnswers /\ UNCHANGED << storeVars, cleanupVars >>
  \/ CleanupList
  \/ CleanupDelete

CleanupSpec == CleanupInit /\ [][CleanupNext]_vars

\* The server process: operations on one loaded DataStore.
DataInit == OrchInit /\ StoreInit /\ CleanupIdle

DataNext == StoreNext /\ UNCHANGED << orchVars, cleanupVars >>

StoreSpec == DataInit /\ [][DataNext]_vars

\* The server process: tool calls, one at a time, on one loaded DataStore.
ToolInit == OrchInit /\ CatalogInit /\ CleanupIdle

ToolStep == ToolNext /\ UNCHANGED << orchVars, cleanupVars >>

ToolSpec == ToolInit /\ [][ToolStep]_vars

\* The server process: callers inside create_audit_record at the same time.
AuditInit == OrchInit /\ CatalogInit /\ CleanupIdle

AuditStep == AuditNext /\ UNCHANGED << orchVars, cleanupVars >>

AuditSpec == AuditInit /\ [][AuditStep]_vars

(***************************************************************************)
(* Properties of process_purchase_request.                                 *)
(***************************************************************************)
\* Run r has returned and its frame can still be looked at.
Returned(r) == pc[r] = "done"

NonEmptyText(m) == \E i \in 1..Len(m) : m[i] # ""

\* Some delete_agent call for the agent of run r failed.
CleanupFailed(r) ==
  \E a \in createdBy[r] : \E i \in 1..Len(deleteCalls[a]) : ~deleteCalls[a][i]

\* C1: process_purchase_request never raises to its caller. An Exception
\* raised by a collaborator call or by the check of the run status is always
\* inside the outer try, every run that ended has returned an AgentResult,
\* and when something other than cleanup failed that result has
\* success = false and a non-empty error_message.
C1_NeverRaises ==
  \A r \in Runs :
    /\ \A e \in exc[r] : IsException(e) => pc[r] \in {"finally", "except", "done"}
    /\ Returned(r) =>
         /\ result[r] # None
         /\ exc[r] # None =>
              \A res \in result[r] :
                /\ res.success = FALSE
                /\ \E m \in res.error_message : NonEmptyText(m)

C1_Witness ==
  \E r \in Runs :
    /\ Returned(r)
    /\ runStatus[r] = Some("failed")
    /\ \E res \in result[r] : ~res.success /\ res.error_message # None

\* C2: when agent creation succeeded and a later step fails, at least one
\* delete_agent call for the run's agent is made before the function
\* returns, and the returned result has success = false.
C2_DeleteAttemptedAfterFailure ==
  \A r \in Runs :
    (Returned(r) /\ createdBy[r] # {} /\ exc[r] # None) =>
      /\ \A a \in createdBy[r] : Len(deleteCalls[a]) >= 1
      /\ result[r] # None
      /\ \A res \in result[r] : res.success = FALSE

C2_Witness ==
  \E r \in Runs :
    /\ Returned(r)
    /\ exc[r] = Some(CallError("threads.create failed"))
    /\ \E a \in createdBy[r] : Len(deleteCalls[a]) >= 1

\* C3: in every run in which an agent was created, delete_agent is invoked
\* exactly one time for that agent, on the success path and on every
\* failure path.
C3_ExactlyOneDelete ==
  \A r \in Runs :
    (Returned(r) /\ createdBy[r] # {}) =>
      \A a \in createdBy[r] : Len(deleteCalls[a]) = 1

\* C4: a cleanup failure never changes the run outcome. A run that reached
\* response extraction and whose delete_agent failed returns success = true,
\* the extracted recommendation and no error_message; a run that had already
\* failed and whose delete_agent failed returns success = false with the
\* original error.
C4_CleanupFailureKeepsOutcome ==
  \A r \in Runs :
    (Returned(r) /\ CleanupFailed(r)) =>
      \A res \in result[r] :
        /\ listed[r] # None =>
             /\ res.success = TRUE
             /\ \A ms \in listed[r] : res.recommendation = ExtractRecommendation(ms)
             /\ res.error_message = None
        /\ listed[r] = None =>
             /\ res.success = FALSE
             /\ \E e \in exc[r] :
                  res.error_message = Some(<<"Unexpected error during processing: ">> \o e)

C4_Witness ==
  /\ \E r \in Runs :
       /\ Returned(r)
       /\ CleanupFailed(r)
       /\ listed[r] # None
       /\ \E res \in result[r] : res.success
  /\ \E r \in Runs :
       /\ pc[r] = "gone"
       /\ \E a \in createdBy[r] : deleteCalls[a] = <<FALSE, FALSE>>
       /\ \E res \in result[r] : ~res.success

\* C5: in every returned AgentResult total_steps equals the length of steps
\* and the step numbers are 1, 2, ..., total_steps in list order.
C5_StepNumbering ==
  \A r \in Runs :
    \A res \in result[r] :
      LET steps == lists[res.steps]
      IN  /\ res.total_steps = Len(steps)
          /\ \A i \in 1..Len(steps) : steps[i].step_number = i

C5_Witness ==
  \E r \in Runs :
    \E res \in result[r] :
      /\ ~res.success
      /\ res.total_steps = 6
      /\ Len(lists[res.steps]) = 6

\* The steps of a result that carry a tool invocation.
ToolSteps(steps) == SelectSeq(steps, LAMBDA s : s.mcp_tool_called # None)

\* C6: every tool invocation the execution context made during the run is
\* one AgentStep of the run's result, with the tool name, the arguments and
\* the raw result, in the order of the invocations.
C6_ToolCallsRecorded ==
  \A r \in Runs :
    Returned(r) =>
      \A res \in result[r] :
        LET ts == ToolSteps(lists[res.steps])
            tc == toolCalls[r]
        IN  /\ Len(ts) = Len(tc)
            /\ \A i \in 1..Len(tc) :
                 /\ ts[i].mcp_tool_called = Some(tc[i].tool)
                 /\ ts[i].mcp_tool_params = Some(tc[i].args)
                 /\ ts[i].mcp_result = Some(tc[i].result)

(***************************************************************************)
(* Properties of the data store.                                           *)
(***************************************************************************)
S_Business_Laptop == <<"B", "u", "s", "i", "n", "e", "s", "s", " ", "L", "a", "p", "t", "o", "p">>
S_Computer == <<"C", "o", "m", "p", "u", "t", "e", "r">>

Searched == call.op = "search_products"

\* The products of the catalog, in catalog order.
Catalog == DictValues(products)

CatalogPos(p) == CHOOSE i \in 1..Len(Catalog) : Catalog[i] = p

C8_NoDuplicates ==
  Searched =>
    \A i, j \in 1..Len(ret) : i # j => ret[i].product_id # ret[j].product_id

C8_Witness ==
  /\ Searched
  /\ call.name = S_computer
  /\ \E i \in 1..Len(ret) :
       Matches(S_computer, ret[i]) /\ Matches(S_workstation, ret[i])
  /\ \E i \in 1..Len(ret) :
       Matches(S_laptop, ret[i]) /\ Matches(S_pc, ret[i])

\* C9: search_products("computer") contains every product whose lowercased
\* name or description contains "laptop", "pc" or "workstation", and
\* search_products("laptop") contains every product that
\* search_products("Business Laptop") returns.
C9_SearchExactness ==
  /\ (Searched /\ call.name = S_computer) =>
        \A i \in 1..Len(Catalog) :
          (\E w \in {S_laptop, S_pc, S_workstation} :
              \/ Contains(w, lower(Catalog[i].name))
              \/ Contains(w, lower(Catalog[i].description)))
            => InList(Catalog[i], ret)
  /\ (Searched /\ call.name = S_laptop) =>
        LET exact == search_products(S_Business_Laptop)
        IN  \A i \in 1..Len(exact) : InList(exact[i], ret)

C9_Witness ==
  /\ Searched
  /\ call.name = S_laptop
  /\ search_products(S_Business_Laptop) # <<>>
  /\ \E i \in 1..Len(ret) : ret[i].name = S_Business_Laptop

\* C10: get_department_budget returns, for a department of the store, its
\* monthly_budget and a remaining_budget that is monthly_budget minus
\* spent_this_month, negative when the budget is below the spent amount;
\* for an unknown department id it returns not-found.
C10_BudgetArithmetic ==
  call.op = "get_department_budget" =>
    LET known == { i \in 1..Len(departments) : departments[i][1] = call.department_id }
    IN  /\ known = {} => ret = None
        /\ \A i \in known :
             LET d == departments[i][2]
             IN  /\ Cardinality(ret) = 1
                 /\ \A b \in ret :
                      /\ b.monthly_budget = d.monthly_budget
                      /\ b.remaining_budget + b.spent_this_month = d.monthly_budget
                      /\ d.monthly_budget < b.spent_this_month => b.remaining_budget < 0

C10_Witness ==
  /\ call.op = "get_department_budget"
  /\ \E b \in ret : b.remaining_budget < 0 /\ b.monthly_budget = 1000

(***************************************************************************)
(* Properties of the DataStore and of the tools.                           *)
(***************************************************************************)
\* The i-th record of the log carries the arguments of the i-th call.
LogMatchesCalls ==
  /\ Len(audit_records) = Len(auditCalls)
  /\ \A i \in 1..Len(audit_records) :
       /\ audit_records[i].user_id = auditCalls[i].user_id
       /\ audit_records[i].action = auditCalls[i].action
       /\ audit_records[i].details = auditCalls[i].details
       /\ audit_records[i].decision_reasoning = auditCalls[i].decision_reasoning

\* The records of the log stay where they are, with their content.
LogKeepsRecords ==
  /\ Len(audit_records') >= Len(audit_records)
  /\ \A i \in 1..Len(audit_records) : audit_records'[i] = audit_records[i]

\* C11: the audit log is append-only. After N create_audit_record calls the
\* log holds exactly N records more, the i-th of them carrying the user_id,
\* action, details and decision_reasoning of the i-th call; no operation
\* removes, reorders or changes a record the log already holds.
C11_AuditAppendOnly == [](LogMatchesCalls) /\ [][LogKeepsRecords]_vars

\* Two different records were appended, and a lookup tool ran after them.
C11_Witness ==
  /\ Len(audit_records) = 2
  /\ audit_records[1] # audit_records[2]
  /\ call.op = "tool_get_supplier_info"

\* The callers that have built their record and not yet appended it.
Pending == { c \in Callers : apc[c] = "built" }

\* How often a value occurs in a list.
Count(list, v) == Cardinality({ i \in 1..Len(list) : list[i] = v })

\* C12: create_audit_record is safe for concurrent callers. No write is
\* lost: the log holds one record for every call that has passed its append,
\* as often as that call was made; and every stored record holds the fields
\* of exactly one call, never a mix of two.
C12_ConcurrentAppendsSafe ==
  /\ Len(audit_records) = Len(auditCalls) - Cardinality(Pending)
  /\ \A i \in 1..Len(audit_records) :
       \E j \in 1..Len(auditCalls) :
         /\ audit_records[i].user_id = auditCalls[j].user_id
         /\ audit_records[i].action = auditCalls[j].action
         /\ audit_records[i].details = auditCalls[j].details
         /\ audit_records[i].decision_reasoning = auditCalls[j].decision_reasoning
  /\ \A args \in AuditArgs :
       Count(audit_records, BuildRecord(args)) =
         Count(auditCalls, args)
           - Cardinality({ c \in Pending : record[c] = Some(BuildRecord(args)) })

\* Two callers were inside create_audit_record at the same time with
\* different arguments, and both have appended.
C12_Witness ==
  /\ \A c \in {1, 2} : apc[c] = "appended"
  /\ record[1] # record[2]
  /\ Len(audit_records) = 2

\* The result a lookup tool owes for an id: the stored record when the
\* collection holds the id, a failure when it does not.
LookupResult(stored) ==
  IF stored = None THEN ~ret.ok
  ELSE ret.ok /\ ret.value = CHOOSE x \in stored : TRUE

LookupToolOps == {"tool_get_user", "tool_get_department_policy",
                  "tool_get_department_budget", "tool_get_supplier_info"}

LookupToolsAnswer ==
  /\ call.op = "tool_get_user" => LookupResult(DictGet(users, call.user_id))
  /\ call.op = "tool_get_department_policy" =>
       LookupResult(DictGet(departments, call.department_id))
  /\ call.op = "tool_get_department_budget" =>
       LET stored == DictGet(departments, call.department_id)
       IN  IF stored = None THEN ~ret.ok
           ELSE /\ ret.ok
                /\ ret.value.department_id = call.department_id
                /\ \A d \in stored : ret.value.monthly_budget = d.monthly_budget
  /\ call.op = "tool_get_supplier_info" =>
       LookupResult(DictGet(suppliers, call.supplier_id))

FailedLookupChangesNothing ==
  (call'.op \in LookupToolOps /\ ~ret'.ok) =>
     UNCHANGED << catalogVars, audit_records >>

\* C13: get_user, get_department_policy, get_department_budget and
\* get_supplier_info return the stored record when the id is present and
\* fail with a not-found error exactly when it is absent, whatever calls
\* came before; a failing call leaves the catalog and the audit log
\* unchanged.
C13_LookupToolsNotFound == [](LookupToolsAnswer) /\ [][FailedLookupChangesNothing]_vars

\* get_user failed on a store that holds users and audit records.
C13_Witness ==
  /\ call.op = "tool_get_user"
  /\ ~ret.ok
  /\ users # <<>>
  /\ audit_records # <<>>

\* The offers the store holds for a product.
Offers(product_id) == GetOr(DictGet(product_details, product_id), <<>>)

\* C14: the tool get_product_details fails with a not-found error exactly
\* when the product has no offer; for a product with at least one offer
\* every call, with or without a supplier_id, returns a sequence.
C14_DetailsToolFailsOnlyWithoutOffers ==
  call.op = "tool_get_product_details" =>
    (~ret.ok <=> Offers(call.product_id) = <<>>)

\* The positions of a product's offers that a supplier made, and the k-th
\* of them.
OffersOf(product_id, supplier_id) ==
  { i \in 1..Len(Offers(product_id)) : Offers(product_id)[i].supplier_id = supplier_id }

NthOfferOf(product_id, supplier_id, k) ==
  CHOOSE i \in OffersOf(product_id, supplier_id) :
    Cardinality({ j \in OffersOf(product_id, supplier_id) : j <= i }) = k

\* The result holds exactly the supplier's offers, in the order of the
\* unfiltered result.
IsFilteredBy(product_id, supplier_id) ==
  /\ Len(ret) = Cardinality(OffersOf(product_id, supplier_id))
  /\ \A k \in 1..Len(ret) :
       ret[k] = Offers(product_id)[NthOfferOf(product_id, supplier_id, k)]

\* C15 as stated: DataStore.get_product_details returns the empty sequence
\* for a product without offers, and with a supplier_id exactly the entries
\* of the unfiltered result whose supplier_id equals the argument, in order.
C15_DetailsFilteredByAnySupplierId ==
  call.op = "get_product_details" =>
    /\ Offers(call.product_id) = <<>> => ret = <<>>
    /\ \A supplier_id \in call.supplier_id : IsFilteredBy(call.product_id, supplier_id)

\* C15, amended: DataStore.get_product_details never signals an error. It
\* returns the empty sequence for a product without offers or an unknown
\* id; with a non-empty supplier_id it returns exactly the entries of the
\* unfiltered result whose supplier_id equals the argument, in the same
\* relative order; without a supplier_id, or with the empty string, it
\* returns the unfiltered result.
C15_DetailsFiltered ==
  call.op = "get_product_details" =>
    /\ Offers(call.product_id) = <<>> => ret = <<>>
    /\ \A supplier_id \in call.supplier_id :
         supplier_id # "" => IsFilteredBy(call.product_id, supplier_id)
    /\ (call.supplier_id = None \/ call.supplier_id = Some("")) =>
         ret = Offers(call.product_id)

\* A filter kept some of a product's offers and dropped an earlier one.
C15_Witness ==
  /\ call.op = "get_product_details"
  /\ call.supplier_id = Some("tech-supplier-01")
  /\ Len(ret) = 1
  /\ Len(Offers(call.product_id)) = 2
  /\ ret[1] = Offers(call.product_id)[2]

\* A step leaves the five collections as they are, and changes the audit
\* log only when it is a create_audit_record call.
OnlyAuditChangesState ==
  /\ UNCHANGED catalogVars
  /\ audit_records' # audit_records => call'.op = "tool_create_audit_record"

\* C16: lookups are stable. After any sequence of tool operations get_user,
\* get_department and get_supplier answer from the collections as loaded:
\* users, departments, products, suppliers and product_details never change;
\* create_audit_record is the only operation that changes state, and it
\* changes only the audit log.
C16_LookupsStable == [][OnlyAuditChangesState]_vars

\* get_user found a user after audit records had been created.
C16_Witness ==
  /\ call.op = "get_user"
  /\ ret # None
  /\ audit_records # <<>>

(***************************************************************************)
(* Properties of the run outcome.                                          *)
(***************************************************************************)
\* The step list documents a run that ended with status failed.
RunOutcomeStep(steps) ==
  \E i \in 1..Len(steps) :
    /\ steps[i].action = "Execute Agent Run"
    /\ steps[i].reasoning = <<"Agent completed with status: ", "failed">>

\* At least one delete_agent call was made for every agent of run r.
ReleaseAttempted(r) ==
  /\ createdBy[r] # {}
  /\ \A a \in createdBy[r] : Len(deleteCalls[a]) >= 1

\* C17: when the run comes back with status failed, the step documenting
\* the outcome is in the step list before the failure is raised, no
\* recommendation is extracted, the release of the agent is still attempted,
\* and the returned AgentResult has success = false and an error_message
\* that contains the run's failure message.
C17_FailedRunReported ==
  \A r \in Runs :
    /\ (runStatus[r] = Some("failed") /\ pc[r] \in {"finally", "except"}) =>
         RunOutcomeStep(lists[execution_steps])
    /\ (runStatus[r] = Some("failed") /\ Returned(r)) =>
         /\ listed[r] = None
         /\ recommendation[r] = None
         /\ ReleaseAttempted(r)
         /\ result[r] # None
         /\ \A res \in result[r] :
              /\ ~res.success
              /\ RunOutcomeStep(lists[res.steps])
              /\ \E m \in res.error_message :
                   \E last_error \in LastErrors, i \in 1..Len(m) : m[i] = last_error

\* A run with status failed has returned, its agent deleted by the first
\* delete_agent call.
C17_Witness ==
  \E r \in Runs :
    /\ Returned(r)
    /\ runStatus[r] = Some("failed")
    /\ \E a \in createdBy[r] : deleteCalls[a][1]
    /\ \E res \in result[r] : RunOutcomeStep(lists[res.steps])

\* No message of the assistant carries a text.
NoAssistantText(messages) ==
  \A i \in 1..Len(messages) :
    messages[i].role = "assistant" =>
      \A k \in 1..Len(messages[i].content) : messages[i].content[k].text = None

\* C18: when the run completes and the thread holds no text message of the
\* assistant, the recommendation is the sentinel "No response from agent",
\* success is true and there is no error_message.
C18_SentinelOnNoResponse ==
  \A r \in Runs :
    (Returned(r) /\ runStatus[r] = Some("completed")
       /\ \E messages \in listed[r] : NoAssistantText(messages)) =>
      /\ result[r] # None
      /\ \A res \in result[r] :
           /\ res.success
           /\ res.recommendation = "No response from agent"
           /\ res.error_message = None

\* A completed run whose thread held messages, none of them a text of the
\* assistant, has returned.
C18_Witness ==
  \E r \in Runs :
    /\ Returned(r)
    /\ runStatus[r] = Some("completed")
    /\ \E messages \in listed[r] : messages # <<>> /\ NoAssistantText(messages)
    /\ \E res \in result[r] : res.recommendation = "No response from agent"

\* C19: when the wait for the run ends by timeout, the run is treated as a
\* failure: the returned AgentResult has success = false, and the release of
\* the agent is still attempted.
C19_TimeoutIsFailure ==
  \A r \in Runs :
    (Returned(r) /\ runStatus[r] = Some("expired")) =>
      /\ ReleaseAttempted(r)
      /\ \A res \in result[r] : ~res.success

\* C20: a run interrupted while it is blocked in the wait passes through the
\* release of the agent and then returns an AgentResult with
\* success = false; the interrupt never leaves the caller without a result.
C20_CancellationReturnsFailure ==
  \A r \in Runs :
    (exc[r] = Some(KeyboardInterrupt) /\ pc[r] # "finally") =>
      /\ Returned(r)
      /\ ReleaseAttempted(r)
      /\ result[r] # None
      /\ \A res \in result[r] : ~res.success

(***************************************************************************)
(* Properties of the resources a run holds and of runs on one instance.    *)
(***************************************************************************)
\* Every run has created at most one agent, agents belong to one run, and
\* the agent a run works with is one it created.
OwnAgentOnly ==
  \A r \in Runs :
    /\ Cardinality(createdBy[r]) <= 1
    /\ agent[r] \subseteq createdBy[r]
    /\ \A q \in Runs : q # r => createdBy[q] \cap createdBy[r] = {}

\* A delete_agent call is made by a run in its cleanup for an agent that
\* run created.
DeletesOwnAgent ==
  \A a \in DOMAIN deleteCalls :
    deleteCalls'[a] # deleteCalls[a] =>
      \E r \in Runs :
        /\ pc[r] \in {"finally", "except"}
        /\ pc'[r] # pc[r]
        /\ a \in createdBy[r]

\* C21: each run creates at most one agent and never uses an agent created
\* by another run: at every point of two interleaved runs at most one live
\* agent is attributable to a run, and the agent a run executes and deletes
\* is the one that run created.
C21_OneAgentPerRun == [](OwnAgentOnly) /\ [][DeletesOwnAgent]_vars

\* Two runs are in flight, one of them at its cleanup, each holding a live
\* agent of its own.
C21_Witness ==
  /\ pc[1] = "finally"
  /\ pc[2] = "run"
  /\ agent[1] # agent[2]
  /\ agent[1] \cup agent[2] = liveAgents
  /\ Cardinality(liveAgents) = 2

(***************************************************************************)
(* Properties of the order of search results and of the loaded data.       *)
(***************************************************************************)
\* C24 as stated: search_products returns its products in catalog order,
\* also when the equivalence pass adds products.
C24_CatalogOrder ==
  Searched =>
    \A i, j \in 1..Len(ret) : i < j => CatalogPos(ret[i]) < CatalogPos(ret[j])

\* The product contains the lowercased search term itself.
FoundDirectly(p) == Matches(lower(call.name), p)

\* C24, amended: search_products returns its products in the order of
\* discovery. The products that contain the term itself come first, in
\* catalog order; every product the equivalence pass adds comes after all
\* of them, wherever it stands in the catalog.
C24_DiscoveryOrder ==
  Searched =>
    \A i, j \in 1..Len(ret) :
      i < j =>
        /\ FoundDirectly(ret[j]) => FoundDirectly(ret[i])
        /\ (FoundDirectly(ret[i]) /\ FoundDirectly(ret[j])) =>
             CatalogPos(ret[i]) < CatalogPos(ret[j])

\* The equivalence pass added a product that stands in the catalog before
\* a product containing the term.
C24_Witness ==
  /\ Searched
  /\ call.name = S_computer
  /\ \E i, j \in 1..Len(ret) :
       /\ i < j
       /\ FoundDirectly(ret[i])
       /\ ~FoundDirectly(ret[j])
       /\ CatalogPos(ret[j]) < CatalogPos(ret[i])

\* The threads run r created that still exist at the hosting collaborator.
\* Nothing but a delete call of the run ends a thread, so these are the
\* threads for which the run attempted no release.
ThreadsHeld(r) == { t \in threads : t.run = r }

\* C22: when process_purchase_request returns, a release has been attempted
\* for every transient resource the run created, the agent and the
\* conversation thread, on the success path and on every failure path.
C22_AllResourcesReleased ==
  \A r \in Runs :
    Returned(r) =>
      /\ \A a \in createdBy[r] : Len(deleteCalls[a]) >= 1
      /\ ThreadsHeld(r) = {}

\* C23: on completed status the recommendation is the text of the first
\* message of the assistant that has a text item, in the order listed: a
\* message of the assistant with content and no text before it does not
\* make the recommendation the sentinel.
C23_FirstAssistantText ==
  \A r \in Runs :
    (Returned(r) /\ runStatus[r] = Some("completed")) =>
      \A messages \in listed[r] :
        LET texts == { i \in 1..Len(messages) :
                         /\ messages[i].role = "assistant"
                         /\ \E k \in 1..Len(messages[i].content) :
                              messages[i].content[k].text # None }
        IN  texts # {} =>
              LET first == CHOOSE i \in texts : \A j \in texts : i <= j
              IN  \A res \in result[r] :
                    Some(res.recommendation) = FirstText(messages[first].content)

\* A run that has just started finds an empty step list and the counter at
\* 0, in a list no returned result refers to; the first step of every list
\* has the number 1.
FreshStepState ==
  /\ \A r \in Runs :
       pc[r] = "setup" =>
         /\ step_counter = 0
         /\ lists[execution_steps] = <<>>
         /\ \A q \in Runs : \A res \in result[q] : res.steps # execution_steps
  /\ \A l \in 1..Len(lists) : lists[l] # <<>> => lists[l][1].step_number = 1

\* A returned result keeps its fields and the content of its step list.
ResultsKept ==
  \A q \in Runs :
    \A res \in result[q] :
      /\ result'[q] = result[q]
      /\ lists'[res.steps] = lists[res.steps]
      /\ res.total_steps = Len(lists'[res.steps])

\* C25: sequential runs on one instance are independent. Each run starts
\* with an empty step list and the counter at 0 whether the run before it
\* succeeded or failed, so its first step has the number 1; the steps and
\* total_steps of a result an earlier run returned are not changed by a
\* later run.
C25_SequentialRunsIndependent == [](FreshStepState) /\ [][ResultsKept]_vars

\* A second run has returned with steps of its own after a first run that
\* failed with steps.
C25_Witness ==
  /\ pc[2] = "done"
  /\ \E first \in result[1], second \in result[2] :
       /\ ~first.success
       /\ second.success
       /\ first.total_steps >= 3
       /\ second.total_steps > first.total_steps
       /\ first.steps # second.steps

\* C26: step state is never shared between concurrent runs. When two calls
\* on one instance interleave, each returned AgentResult holds the steps of
\* its own run only (no action of a run twice), numbered 1..total_steps
\* without gaps, and total_steps is the length of its steps.
C26_StepsNotShared ==
  \A r \in Runs :
    Returned(r) =>
      \A res \in result[r] :
        LET steps == lists[res.steps]
        IN  /\ res.total_steps = Len(steps)
            /\ \A i \in 1..Len(steps) : steps[i].step_number = i
            /\ \A i, j \in 1..Len(steps) :
                 i # j => steps[i].action # steps[j].action
            /\ \A q \in Runs : \A other \in result[q] :
                 q # r => other.steps # res.steps

\* C27: for any loaded data, when supplier s made some offer of product p,
\* get_product_details(p, s) returns exactly one entry, and its supplier_id
\* is s: a product has at most one offer per supplier after loading.
C27_OneOfferPerSupplier ==
  call.op = "get_product_details" =>
    \A supplier_id \in call.supplier_id :
      OffersOf(call.product_id, supplier_id) # {} =>
        /\ Len(ret) = 1
        /\ ret[1].supplier_id = supplier_id

\* C28: in every constructed DataStore each user's department_id resolves:
\* get_department(u.department_id) returns a department for every user u;
\* a source with a user of a missing department gives no usable store.
C28_UserDepartmentResolves ==
  \A i \in 1..Len(users) : get_department(users[i][2].department_id) # None

(***************************************************************************)
(* Properties of the cleanup utility.                                      *)
(***************************************************************************)
\* The delete_agent calls the utility made for agent a.
CallsFor(a) == { i \in 1..Len(cleanupCalls) : cleanupCalls[i].agent = a }

\* C29: cleanup_agents with delete_all = False deletes no agent. With
\* delete_all = True it attempts to delete every listed agent whose name
\* contains name_filter, going on with the remaining agents after a
\* deletion failed, never attempts to delete an agent whose name does not
\* contain name_filter, and its deleted count is the number of deletions
\* that succeeded.
C29_CleanupDeletesMatching ==
  /\ ~delete_all => cleanupCalls = <<>>
  /\ \A i \in 1..Len(cleanupCalls) :
       /\ Contains(name_filter, AgentName(cleanupCalls[i].agent))
       /\ InList(cleanupCalls[i].agent, agents)
  /\ deleted_count = Cardinality({ i \in 1..Len(cleanupCalls) : cleanupCalls[i].ok })
  /\ (cpc = "done" /\ delete_all) =>
       \A k \in 1..Len(agents) :
         Contains(name_filter, AgentName(agents[k])) =>
           Cardinality(CallsFor(agents[k])) = 1

\* The utility has finished: its first deletion failed, a later one worked,
\* and an agent with another name was listed and left alone.
C29_Witness ==
  /\ cpc = "done"
  /\ delete_all
  /\ Len(cleanupCalls) >= 2
  /\ ~cleanupCalls[1].ok
  /\ cleanupCalls[Len(cleanupCalls)].ok
  /\ \E k \in 1..Len(agents) :
       /\ ~Contains(name_filter, AgentName(agents[k]))
       /\ CallsFor(agents[k]) = {}

\* The run is between the creation of its agent and its own cleanup.
InFlight(r) == pc[r] \in {"create_thread", "create_message", "run", "list_messages"}

\* C30: the cleanup utility removes only orphaned agents. Running with
\* delete_all = True and the default name filter next to a
\* process_purchase_request run, it never deletes the agent of a run that
\* has not reached its own cleanup.
C30_UtilitySparesRunningAgents ==
  (delete_all /\ name_filter = S_purchase_order_agent) =>
    \A r \in Runs : InFlight(r) => agent[r] \subseteq liveAgents

====
